---- MODULE Spec2Model ----
(***************************************************************************)
(* Model of the warehouse picking verifier server: the entity store (the   *)
(* five tables of db/schema) and the handlers createMof, createItem,       *)
(* scanItem and verifyItem.  Every awaited database call of a handler is   *)
(* one step; Spec runs a handler's steps to completion in one action (the  *)
(* serial executions), SpecConc interleaves the steps of concurrent calls. *)
(* The audit columns created_at / updated_at and the descriptive columns   *)
(* (supplier, requester_name, department, project, expected date) are      *)
(* written but never read by any handler and are left out of the rows.     *)
(***************************************************************************)
EXTENDS Integers, Sequences, FiniteSets, TLC

\* ---------------------------------------------------------------- bounds
MaxMofs == 2
MaxItems == 2
MaxClock == 1
MaxUsers == 3
RandomSuffixes == 1
NProcs == 3

\* ------------------------------------------------------------ value sets
NULL == 0
NullTime == 0 - 1

\* Items come in two part numbers, MOFs are requested for the first one, so a
\* scan can meet a matching and a mismatching item and two MOFs can compete
\* for the same item.  User 1 exists, user 2 does not.
PartNumbers == {"P1", "P2"}
MofPartNumbers == {"P1"}
Quantities == {1, 2}
ExistingUsers == {1}
Usernames == {"u1", "u2", "u3"}
Emails == {"e1", "e2", "e3"}
UserIds == {1, 2}
ItemSerials == 1..MaxItems
MofSerials == (0..MaxClock) \X (0..(RandomSuffixes - 1))
Times == 0..MaxClock

mofStatusEnum == <<"Pending", "In Progress", "MOF siap Supply", "Completed">>

VARIABLES users, mofs, items, pickRecords, verificationRecords, clock,
          lastCall, scanRun, procs

storeVars == <<users, mofs, items, pickRecords, verificationRecords>>
vars == <<users, mofs, items, pickRecords, verificationRecords, clock,
          lastCall, scanRun, procs>>

Store ==
    [users |-> users, mofs |-> mofs, items |-> items,
     pickRecords |-> pickRecords, verificationRecords |-> verificationRecords]

\* ------------------------------------------------------------ table rows
usersTable(id, username, email) ==
    [id |-> id, username |-> username, email |-> email]

\* The users the store starts with.
InitialUsers == <<usersTable(1, "u1", "e1")>>

mofsTable(id, serial, part, qty, status, createdBy, createdAt) ==
    [id |-> id, serial_number |-> serial, part_number |-> part,
     quantity_requested |-> qty, status |-> status, created_by |-> createdBy,
     created_at |-> createdAt]

itemsTable(id, part, serial) ==
    [id |-> id, part_number |-> part, serial_number |-> serial,
     is_scanned_by_picker |-> FALSE, is_scanned_by_requester |-> FALSE,
     mof_id |-> NULL, picked_at |-> NullTime, verified_at |-> NullTime]

pickRecordsTable(mofId, itemId, pickedBy, pickedAt) ==
    [mof_id |-> mofId, item_id |-> itemId, picked_by |-> pickedBy,
     picked_at |-> pickedAt]

verificationRecordsTable(mofId, itemId, verifiedBy, verifiedAt) ==
    [mof_id |-> mofId, item_id |-> itemId, verified_by |-> verifiedBy,
     verified_at |-> verifiedAt]

NoMof == mofsTable(NULL, <<0, 0>>, "", 0, "", NULL, NullTime)
NoItem == itemsTable(NULL, "", 0)

\* ------------------------------------------------------- store operations
SelectUserIds(s) == {s.users[k].id : k \in 1..Len(s.users)}

SelectMofsBySerial(s, serial) ==
    SelectSeq(s.mofs, LAMBDA m : m.serial_number = serial)

SelectItemsBySerial(s, serial) ==
    SelectSeq(s.items, LAMBDA i : i.serial_number = serial)

CountPicked(s, mofId) ==
    Cardinality({i \in 1..Len(s.items) :
        s.items[i].mof_id = mofId /\ s.items[i].is_scanned_by_picker})

CountVerified(s, mofId) ==
    Cardinality({i \in 1..Len(s.items) :
        s.items[i].mof_id = mofId /\ s.items[i].is_scanned_by_requester})

UpdateItemPicked_NoMofId(s, itemId, mofId, now) ==
    [s EXCEPT !.items[itemId] =
        [@ EXCEPT !.is_scanned_by_picker = TRUE, !.picked_at = now]]

UpdateItemPicked_AllRows(s, itemId, mofId, now) ==
    [s EXCEPT !.items =
        [j \in 1..Len(s.items) |->
            [s.items[j] EXCEPT !.is_scanned_by_picker = TRUE, !.mof_id = mofId,
                               !.picked_at = now]]]

UpdateItemPicked(s, itemId, mofId, now) ==
    [s EXCEPT !.items[itemId] =
        [@ EXCEPT !.is_scanned_by_picker = TRUE, !.mof_id = mofId,
                  !.picked_at = now]]

UpdateItemVerified_AllRows(s, itemId, verifiedAt) ==
    [s EXCEPT !.items =
        [j \in 1..Len(s.items) |->
            [s.items[j] EXCEPT !.is_scanned_by_requester = TRUE,
                               !.verified_at = verifiedAt]]]

UpdateItemVerified(s, itemId, verifiedAt) ==
    [s EXCEPT !.items[itemId] =
        [@ EXCEPT !.is_scanned_by_requester = TRUE, !.verified_at = verifiedAt]]

UpdateMofStatus(s, mofId, status) ==
    [s EXCEPT !.mofs[mofId] = [@ EXCEPT !.status = status]]

\* The references() clauses of the record tables: the insert is rejected
\* unless the MOF, the item and the acting user exist.
PickRecordFkOk(s, rec) ==
    /\ rec.mof_id \in 1..Len(s.mofs)
    /\ rec.item_id \in 1..Len(s.items)
    /\ rec.picked_by \in SelectUserIds(s)

VerificationRecordFkOk(s, rec) ==
    /\ rec.mof_id \in 1..Len(s.mofs)
    /\ rec.item_id \in 1..Len(s.items)
    /\ rec.verified_by \in SelectUserIds(s)

InsertPickRecord_Overwrite(s, rec) ==
    [s EXCEPT !.pickRecords = <<rec>>]

InsertPickRecord(s, rec) ==
    [s EXCEPT !.pickRecords = Append(@, rec)]

InsertVerificationRecord(s, rec) ==
    [s EXCEPT !.verificationRecords = Append(@, rec)]

\* ------------------------------------------------------------ call state
\* The locals of one running handler call.
NewCall(op, in) ==
    [op |-> op, in |-> in, pc |-> "selectMof", mof |-> NoMof, item |-> NoItem,
     now |-> NullTime, newStatus |-> "", res |-> ""]

Idle ==
    [op |-> "", in |-> <<>>, pc |-> "idle", mof |-> NoMof, item |-> NoItem,
     now |-> NullTime, newStatus |-> "", res |-> ""]

Throw(s, c, err) == [s |-> s, c |-> [c EXCEPT !.pc = "done", !.res = err]]
Return(s, c) == [s |-> s, c |-> [c EXCEPT !.pc = "done", !.res = "Ok"]]
Goto(s, c, pc) == [s |-> s, c |-> [c EXCEPT !.pc = pc]]

\* --------------------------------------------------------------- scanItem
\* One operator per awaited store call of scanItem, each with the synchronous
\* code that follows the call.
scanSelectMof(s, c) ==
    LET found == SelectMofsBySerial(s, c.in.mof_serial_number) IN
    IF Len(found) = 0 THEN Throw(s, c, "NotFound(mof)")
    ELSE Goto(s, [c EXCEPT !.mof = found[1]], "selectItem")

scanSelectItem_ActsBeforeMismatch(s, c, clk) ==
    LET found == SelectItemsBySerial(s, c.in.item_serial_number) IN
    IF Len(found) = 0 THEN Throw(s, c, "NotFound(item)")
    ELSE IF found[1].is_scanned_by_picker
         THEN Throw(s, c, "AlreadyProcessed(pick)")
    ELSE IF found[1].part_number # c.mof.part_number
         THEN Throw(UpdateItemPicked(s, found[1].id, c.mof.id, clk), c,
                    "Mismatch(partNumber)")
    ELSE Goto(s, [c EXCEPT !.item = found[1], !.now = clk], "updateItem")

scanSelectItem_NoPickedCheck(s, c, clk) ==
    LET found == SelectItemsBySerial(s, c.in.item_serial_number) IN
    IF Len(found) = 0 THEN Throw(s, c, "NotFound(item)")
    ELSE IF found[1].part_number # c.mof.part_number
         THEN Throw(s, c, "Mismatch(partNumber)")
    ELSE Goto(s, [c EXCEPT !.item = found[1], !.now = clk], "updateItem")

scanSelectItem(s, c, clk) ==
    LET found == SelectItemsBySerial(s, c.in.item_serial_number) IN
    IF Len(found) = 0 THEN Throw(s, c, "NotFound(item)")
    ELSE IF found[1].part_number # c.mof.part_number
         THEN Throw(s, c, "Mismatch(partNumber)")
    ELSE IF found[1].is_scanned_by_picker
         THEN Throw(s, c, "AlreadyProcessed(pick)")
    ELSE Goto(s, [c EXCEPT !.item = found[1], !.now = clk], "updateItem")

scanUpdateItem(s, c) ==
    LET t == UpdateItemPicked(s, c.item.id, c.mof.id, c.now) IN
    Goto(t, [c EXCEPT !.item = t.items[c.item.id]], "insertRecord")

scanInsertPickRecord(s, c) ==
    LET rec == pickRecordsTable(c.mof.id, c.item.id, c.in.picked_by, c.now) IN
    IF ~PickRecordFkOk(s, rec) THEN Throw(s, c, "StoreError(fk)")
    ELSE Goto(InsertPickRecord(s, rec), c, "countItems")

scanCountPicked_NoInProgress(s, c) ==
    LET pickedCount == CountPicked(s, c.mof.id) IN
    IF pickedCount = c.mof.quantity_requested
    THEN Goto(s, [c EXCEPT !.newStatus = "MOF siap Supply"], "updateMof")
    ELSE Return(s, c)

scanCountPicked_AlwaysInProgress(s, c) ==
    LET pickedCount == CountPicked(s, c.mof.id) IN
    IF pickedCount = c.mof.quantity_requested
    THEN Goto(s, [c EXCEPT !.newStatus = "MOF siap Supply"], "updateMof")
    ELSE Goto(s, [c EXCEPT !.newStatus = "In Progress"], "updateMof")

\* The count is compared with the MOF row read at the start of the call.
scanCountPicked(s, c) ==
    LET pickedCount == CountPicked(s, c.mof.id) IN
    IF pickedCount = c.mof.quantity_requested
    THEN Goto(s, [c EXCEPT !.newStatus = "MOF siap Supply"], "updateMof")
    ELSE IF c.mof.status = "Pending"
         THEN Goto(s, [c EXCEPT !.newStatus = "In Progress"], "updateMof")
    ELSE Return(s, c)

scanUpdateMof(s, c) == Return(UpdateMofStatus(s, c.mof.id, c.newStatus), c)

scanItemStep(s, c, clk) ==
    CASE c.pc = "selectMof" -> scanSelectMof(s, c)
      [] c.pc = "selectItem" -> scanSelectItem(s, c, clk)
      [] c.pc = "updateItem" -> scanUpdateItem(s, c)
      [] c.pc = "insertRecord" -> scanInsertPickRecord(s, c)
      [] c.pc = "countItems" -> scanCountPicked(s, c)
      [] c.pc = "updateMof" -> scanUpdateMof(s, c)

\* ------------------------------------------------------------- verifyItem
verifySelectMof(s, c) ==
    LET found == SelectMofsBySerial(s, c.in.mof_serial_number) IN
    IF Len(found) = 0 THEN Throw(s, c, "NotFound(mof)")
    ELSE Goto(s, [c EXCEPT !.mof = found[1]], "selectItem")

verifySelectItem_PickedCheckFirst(s, c, clk) ==
    LET found == SelectItemsBySerial(s, c.in.item_serial_number) IN
    IF Len(found) = 0 THEN Throw(s, c, "NotFound(item)")
    ELSE IF ~found[1].is_scanned_by_picker
         THEN Throw(s, c, "NotYetPicked")
    ELSE IF found[1].mof_id # c.mof.id
         THEN Throw(s, c, "Ownership")
    ELSE IF found[1].is_scanned_by_requester
         THEN Throw(s, c, "AlreadyProcessed(verify)")
    ELSE Goto(s, [c EXCEPT !.item = found[1], !.now = clk], "updateItem")

verifySelectItem_NoOwnershipCheck(s, c, clk) ==
    LET found == SelectItemsBySerial(s, c.in.item_serial_number) IN
    IF Len(found) = 0 THEN Throw(s, c, "NotFound(item)")
    ELSE IF ~found[1].is_scanned_by_picker
         THEN Throw(s, c, "NotYetPicked")
    ELSE IF found[1].is_scanned_by_requester
         THEN Throw(s, c, "AlreadyProcessed(verify)")
    ELSE Goto(s, [c EXCEPT !.item = found[1], !.now = clk], "updateItem")

verifySelectItem(s, c, clk) ==
    LET found == SelectItemsBySerial(s, c.in.item_serial_number) IN
    IF Len(found) = 0 THEN Throw(s, c, "NotFound(item)")
    ELSE IF found[1].mof_id # c.mof.id
         THEN Throw(s, c, "Ownership")
    ELSE IF ~found[1].is_scanned_by_picker
         THEN Throw(s, c, "NotYetPicked")
    ELSE IF found[1].is_scanned_by_requester
         THEN Throw(s, c, "AlreadyProcessed(verify)")
    ELSE Goto(s, [c EXCEPT !.item = found[1], !.now = clk], "updateItem")

verifyUpdateItem(s, c) ==
    LET t == UpdateItemVerified(s, c.item.id, c.now) IN
    Goto(t, [c EXCEPT !.item = t.items[c.item.id]], "insertRecord")

verifyInsertVerificationRecord(s, c) ==
    LET rec == verificationRecordsTable(c.mof.id, c.item.id,
                                        c.in.verified_by, c.now) IN
    IF ~VerificationRecordFkOk(s, rec) THEN Throw(s, c, "StoreError(fk)")
    ELSE Goto(InsertVerificationRecord(s, rec), c, "countItems")

verifyCountVerified_StrictlyMore(s, c) ==
    LET verified == CountVerified(s, c.mof.id) IN
    IF verified > c.mof.quantity_requested
    THEN Goto(s, [c EXCEPT !.newStatus = "Completed"], "updateMof")
    ELSE Return(s, c)

verifyCountVerified(s, c) ==
    LET verified == CountVerified(s, c.mof.id) IN
    IF verified >= c.mof.quantity_requested
    THEN Goto(s, [c EXCEPT !.newStatus = "Completed"], "updateMof")
    ELSE Return(s, c)

verifyUpdateMof(s, c) == Return(UpdateMofStatus(s, c.mof.id, c.newStatus), c)

verifyItemStep(s, c, clk) ==
    CASE c.pc = "selectMof" -> verifySelectMof(s, c)
      [] c.pc = "selectItem" -> verifySelectItem(s, c, clk)
      [] c.pc = "updateItem" -> verifyUpdateItem(s, c)
      [] c.pc = "insertRecord" -> verifyInsertVerificationRecord(s, c)
      [] c.pc = "countItems" -> verifyCountVerified(s, c)
      [] c.pc = "updateMof" -> verifyUpdateMof(s, c)

HandlerStep(s, c, clk) ==
    IF c.op = "scanItem" THEN scanItemStep(s, c, clk) ELSE verifyItemStep(s, c, clk)

\* A handler run from its first statement to its return or throw with no
\* other call in between.
RECURSIVE RunCall(_, _)
RunCall(x, clk) ==
    IF x.c.pc = "done" THEN x ELSE RunCall(HandlerStep(x.s, x.c, clk), clk)

scanItem(s, in, clk) == RunCall([s |-> s, c |-> NewCall("scanItem", in)], clk)
verifyItem(s, in, clk) == RunCall([s |-> s, c |-> NewCall("verifyItem", in)], clk)

\* ------------------------------------------------------ createMof/createItem
createMof(s, in, clk, rnd) ==
    IF in.created_by \notin SelectUserIds(s) THEN [s |-> s, res |-> "NotFound(user)"]
    ELSE LET serialNumber == <<clk, rnd>> IN
         IF Len(SelectMofsBySerial(s, serialNumber)) # 0
         THEN [s |-> s, res |-> "StoreError(unique)"]
         ELSE [s |-> [s EXCEPT !.mofs = Append(@,
                        mofsTable(Len(s.mofs) + 1, serialNumber, in.part_number,
                                  in.quantity_requested, "Pending", in.created_by,
                                  clk))],
               res |-> "Ok"]

createItem_NoUniqueSerial(s, in) ==
    [s |-> [s EXCEPT !.items = Append(@,
                itemsTable(Len(s.items) + 1, in.part_number, in.serial_number))],
     res |-> "Ok"]

createItem(s, in) ==
    IF Len(SelectItemsBySerial(s, in.serial_number)) # 0
    THEN [s |-> s, res |-> "Conflict(duplicateSerial)"]
    ELSE [s |-> [s EXCEPT !.items = Append(@,
                    itemsTable(Len(s.items) + 1, in.part_number, in.serial_number))],
          res |-> "Ok"]

\* A handler that returns a row or null, or that may throw instead of
\* returning a row, gives a sequence of at most one element here.
NotFound == <<>>
Found(x) == <<x>>

\* --------------------------------------------------------------- createUser
\* The unique() clauses of the users table: the constraints an insert of the
\* given row would violate.
UsersUniqueViolations_UsernameOnly(s, row) ==
    IF \E k \in 1..Len(s.users) : s.users[k].username = row.username
    THEN {"Conflict(duplicateUsername)"} ELSE {}

UsersUniqueViolations(s, row) ==
    (IF \E k \in 1..Len(s.users) : s.users[k].username = row.username
     THEN {"Conflict(duplicateUsername)"} ELSE {})
    \cup
    (IF \E k \in 1..Len(s.users) : s.users[k].email = row.email
     THEN {"Conflict(duplicateEmail)"} ELSE {})

\* The outcomes of createUser: the insert is rejected with the conflict of a
\* violated constraint (either one when both are violated), and stores the
\* user otherwise.
createUser(s, in) ==
    LET row == usersTable(Len(s.users) + 1, in.username, in.email)
        conflicts == UsersUniqueViolations(s, row) IN
    IF conflicts # {} THEN {[s |-> s, res |-> c] : c \in conflicts}
    ELSE {[s |-> [s EXCEPT !.users = Append(@, row)], res |-> "Ok"]}

\* ---------------------------------------------------------- updateMofStatus
updateMofStatus_ForwardOnly(s, in) ==
    IF in.id \notin 1..Len(s.mofs)
    THEN [s |-> s, res |-> "NotFound(mof)", mof |-> NotFound]
    ELSE IF \E j, k \in 1..Len(mofStatusEnum) :
                /\ mofStatusEnum[j] = s.mofs[in.id].status
                /\ mofStatusEnum[k] = in.status
                /\ k < j
    THEN [s |-> s, res |-> "Ok", mof |-> Found(s.mofs[in.id])]
    ELSE LET s2 == UpdateMofStatus(s, in.id, in.status) IN
         [s |-> s2, res |-> "Ok", mof |-> Found(s2.mofs[in.id])]

updateMofStatus_NoExistenceCheck(s, in) ==
    IF in.id \notin 1..Len(s.mofs)
    THEN [s |-> s, res |-> "Ok",
          mof |-> Found([NoMof EXCEPT !.id = in.id, !.status = in.status])]
    ELSE LET s2 == UpdateMofStatus(s, in.id, in.status) IN
         [s |-> s2, res |-> "Ok", mof |-> Found(s2.mofs[in.id])]

\* The administrative override: it stores the given status whatever the
\* current one is and returns the stored row, and fails when no MOF has the
\* given id.
updateMofStatus(s, in) ==
    IF in.id \notin 1..Len(s.mofs)
    THEN [s |-> s, res |-> "NotFound(mof)", mof |-> NotFound]
    ELSE LET s2 == UpdateMofStatus(s, in.id, in.status) IN
         [s |-> s2, res |-> "Ok", mof |-> Found(s2.mofs[in.id])]

\* ------------------------------------------------------------ read handlers
SelectMofsById(s, id) == SelectSeq(s.mofs, LAMBDA m : m.id = id)

SelectItemsByMofId_All(s, mofId) == s.items

SelectItemsByMofId(s, mofId) == SelectSeq(s.items, LAMBDA i : i.mof_id = mofId)

getMofProgress_NullWithoutItems(s, in) ==
    LET found == SelectMofsById(s, in.mof_id)
        its == SelectItemsByMofId(s, in.mof_id) IN
    IF Len(found) = 0 \/ Len(its) = 0 THEN [s |-> s, res |-> NotFound]
    ELSE LET mof == found[1]
             itemsPicked == SelectSeq(its, LAMBDA i : i.is_scanned_by_picker)
             itemsVerified == SelectSeq(its, LAMBDA i : i.is_scanned_by_requester) IN
         [s |-> s,
          res |-> Found([mof |-> mof,
                         quantity_requested |-> mof.quantity_requested,
                         quantity_picked |-> Len(itemsPicked),
                         quantity_verified |-> Len(itemsVerified),
                         items_picked |-> itemsPicked,
                         items_verified |-> itemsVerified])]

getMofProgress_StoresStatus(s, in) ==
    LET found == SelectMofsById(s, in.mof_id) IN
    IF Len(found) = 0 THEN [s |-> s, res |-> NotFound]
    ELSE LET mof == found[1]
             its == SelectItemsByMofId(s, in.mof_id)
             itemsPicked == SelectSeq(its, LAMBDA i : i.is_scanned_by_picker)
             itemsVerified == SelectSeq(its, LAMBDA i : i.is_scanned_by_requester) IN
         [s |-> UpdateMofStatus(s, mof.id,
                    IF Len(itemsPicked) > 0 /\ mof.status = "Pending"
                    THEN "In Progress" ELSE mof.status),
          res |-> Found([mof |-> mof,
                         quantity_requested |-> mof.quantity_requested,
                         quantity_picked |-> Len(itemsPicked),
                         quantity_verified |-> Len(itemsVerified),
                         items_picked |-> itemsPicked,
                         items_verified |-> itemsVerified])]

getMofProgress_PickedExcludesVerified(s, in) ==
    LET found == SelectMofsById(s, in.mof_id) IN
    IF Len(found) = 0 THEN [s |-> s, res |-> NotFound]
    ELSE LET mof == found[1]
             its == SelectItemsByMofId(s, in.mof_id)
             itemsPicked == SelectSeq(its, LAMBDA i : i.is_scanned_by_picker
                                                     /\ ~i.is_scanned_by_requester)
             itemsVerified == SelectSeq(its, LAMBDA i : i.is_scanned_by_requester) IN
         [s |-> s,
          res |-> Found([mof |-> mof,
                         quantity_requested |-> mof.quantity_requested,
                         quantity_picked |-> Len(itemsPicked),
                         quantity_verified |-> Len(itemsVerified),
                         items_picked |-> itemsPicked,
                         items_verified |-> itemsVerified])]

getMofProgress(s, in) ==
    LET found == SelectMofsById(s, in.mof_id) IN
    IF Len(found) = 0 THEN [s |-> s, res |-> NotFound]
    ELSE LET mof == found[1]
             its == SelectItemsByMofId(s, in.mof_id)
             itemsPicked == SelectSeq(its, LAMBDA i : i.is_scanned_by_picker)
             itemsVerified == SelectSeq(its, LAMBDA i : i.is_scanned_by_requester) IN
         [s |-> s,
          res |-> Found([mof |-> mof,
                         quantity_requested |-> mof.quantity_requested,
                         quantity_picked |-> Len(itemsPicked),
                         quantity_verified |-> Len(itemsVerified),
                         items_picked |-> itemsPicked,
                         items_verified |-> itemsVerified])]

getMofBySerial_NoWhere(s, in) ==
    LET results == s.mofs IN
    IF Len(results) = 0 THEN [s |-> s, res |-> NotFound]
    ELSE [s |-> s, res |-> Found(results[1])]

getMofBySerial(s, in) ==
    LET results == SelectMofsBySerial(s, in.serial_number) IN
    IF Len(results) = 0 THEN [s |-> s, res |-> NotFound]
    ELSE [s |-> s, res |-> Found(results[1])]

OrderByCreatedAtAsc(rows) ==
    {q \in [1..Len(rows) -> {rows[k] : k \in 1..Len(rows)}] :
        /\ \A k \in 1..Len(rows) : \E j \in 1..Len(rows) : q[j] = rows[k]
        /\ \A j, k \in 1..Len(rows) :
              j < k => q[j].created_at <= q[k].created_at}

\* The orders in which a query sorted by creation time, newest first, can
\* return the given rows: rows created at the same time come in any order.
OrderByCreatedAtDesc(rows) ==
    {q \in [1..Len(rows) -> {rows[k] : k \in 1..Len(rows)}] :
        /\ \A k \in 1..Len(rows) : \E j \in 1..Len(rows) : q[j] = rows[k]
        /\ \A j, k \in 1..Len(rows) :
              j < k => q[j].created_at >= q[k].created_at}

\* The list handlers give the store they leave and every list they can return.
getUserMofs(s, userId) ==
    [s |-> s,
     res |-> OrderByCreatedAtDesc(SelectSeq(s.mofs, LAMBDA m : m.created_by = userId))]

getAllMofs(s) == [s |-> s, res |-> OrderByCreatedAtDesc(s.mofs)]

getAllItems(s) == [s |-> s, res |-> {s.items}]

\* ----------------------------------------------------------------- inputs
ScanItemInputs ==
    [mof_serial_number : MofSerials, item_serial_number : ItemSerials,
     picked_by : UserIds]

VerifyItemInputs ==
    [mof_serial_number : MofSerials, item_serial_number : ItemSerials,
     verified_by : UserIds]

CreateMofInputs ==
    [part_number : MofPartNumbers, quantity_requested : Quantities,
     created_by : UserIds]

CreateItemInputs == [part_number : PartNumbers, serial_number : ItemSerials]

UpdateMofStatusInputs ==
    [id : 1..(MaxMofs + 1), status : {mofStatusEnum[k] : k \in 1..Len(mofStatusEnum)}]

GetMofProgressInputs == [mof_id : 1..(MaxMofs + 1)]

GetMofBySerialInputs ==
    [serial_number : (0..(MaxClock + 1)) \X (0..(RandomSuffixes - 1))]

CreateUserInputs == [username : Usernames, email : Emails]

\* ------------------------------------------------------------------ state
SetStore(s) ==
    /\ users' = s.users
    /\ mofs' = s.mofs
    /\ items' = s.items
    /\ pickRecords' = s.pickRecords
    /\ verificationRecords' = s.verificationRecords

\* The handler that returned last and how it returned.
Call(op, res) == [op |-> op, res |-> res]

Init ==
    /\ users = InitialUsers
    /\ mofs = <<>>
    /\ items = <<>>
    /\ pickRecords = <<>>
    /\ verificationRecords = <<>>
    /\ clock = 0
    /\ lastCall = Call("", "")
    /\ scanRun = <<>>
    /\ procs = [p \in 1..NProcs |-> Idle]

Tick ==
    /\ clock < MaxClock
    /\ clock' = clock + 1
    /\ UNCHANGED <<storeVars, lastCall, scanRun, procs>>

CreateMof ==
    \E in \in CreateMofInputs, rnd \in 0..(RandomSuffixes - 1) :
        \E r \in {createMof(Store, in, clock, rnd)} :
        /\ r.res = "Ok" => Len(mofs) < MaxMofs
        /\ SetStore(r.s)
        /\ lastCall' = Call("createMof", r.res)
        /\ scanRun' = IF r.res = "Ok" THEN Append(scanRun, 0) ELSE scanRun
        /\ UNCHANGED <<clock, procs>>

CreateItem ==
    \E in \in CreateItemInputs :
        \E r \in {createItem(Store, in)} :
        /\ r.res = "Ok" => Len(items) < MaxItems
        /\ SetStore(r.s)
        /\ lastCall' = Call("createItem", r.res)
        /\ UNCHANGED <<clock, scanRun, procs>>

\* The MOF a call resolved, NULL when the lookup failed.
CallMof(c) == c.mof.id

\* History of each MOF since its creation: the number of successful scanItem
\* calls on it while no other call has changed its rows, NoRun afterwards.
NoRun == 0 - 1

Scanned(run, mofId) ==
    IF mofId \in 1..Len(run) /\ run[mofId] # NoRun
    THEN [run EXCEPT ![mofId] = @ + 1] ELSE run

Tainted(run, mofId) ==
    IF mofId \in 1..Len(run) THEN [run EXCEPT ![mofId] = NoRun] ELSE run

ScanItem ==
    \E in \in ScanItemInputs :
        \E r \in {scanItem(Store, in, clock)} :
        /\ SetStore(r.s)
        /\ lastCall' = Call("scanItem", r.c.res)
        /\ scanRun' = IF r.c.res = "Ok" THEN Scanned(scanRun, CallMof(r.c))
                      ELSE IF r.s # Store THEN Tainted(scanRun, CallMof(r.c))
                      ELSE scanRun
        /\ UNCHANGED <<clock, procs>>

VerifyItem ==
    \E in \in VerifyItemInputs :
        \E r \in {verifyItem(Store, in, clock)} :
        /\ SetStore(r.s)
        /\ lastCall' = Call("verifyItem", r.c.res)
        /\ scanRun' = IF r.s # Store THEN Tainted(scanRun, CallMof(r.c))
                      ELSE scanRun
        /\ UNCHANGED <<clock, procs>>

Next == Tick \/ CreateMof \/ CreateItem \/ ScanItem \/ VerifyItem

Spec == Init /\ [][Next]_vars

\* ------------------------------------------------------- concurrent calls
\* Each request runs as its own process: it is started once, takes one store
\* call of its handler at a time and keeps its outcome when it has returned.
\* The steps of different processes interleave.  Requests are numbered in
\* the order in which they start.
Returned(c) == [NewCall(c.op, c.in) EXCEPT !.pc = "done", !.res = c.res]

StartCall(p) ==
    /\ procs[p].pc = "idle"
    /\ \A q \in 1..(p - 1) : procs[q].pc # "idle"
    /\ \/ \E in \in {i \in ScanItemInputs : i.picked_by \in ExistingUsers} :
             procs' = [procs EXCEPT ![p] = NewCall("scanItem", in)]
       \/ \E in \in {i \in VerifyItemInputs : i.verified_by \in ExistingUsers} :
             procs' = [procs EXCEPT ![p] = NewCall("verifyItem", in)]
    /\ UNCHANGED <<storeVars, clock, lastCall, scanRun>>

StepCall(p) ==
    /\ procs[p].pc \notin {"idle", "done"}
    /\ \E r \in {HandlerStep(Store, procs[p], clock)} :
        /\ SetStore(r.s)
        /\ procs' = [procs EXCEPT ![p] = IF r.c.pc = "done" THEN Returned(r.c) ELSE r.c]
    /\ UNCHANGED <<clock, lastCall, scanRun>>

\* The concurrent executions start from a store that createMof and createItem
\* have filled: two MOFs for the same part and two matching items.
InitConc ==
    /\ users = InitialUsers
    /\ \E q1 \in Quantities, q2 \in Quantities :
          mofs = << mofsTable(1, <<0, 0>>, "P1", q1, "Pending", 1, 0),
                    mofsTable(2, <<1, 0>>, "P1", q2, "Pending", 1, 1) >>
    /\ items = << itemsTable(1, "P1", 1), itemsTable(2, "P1", 2) >>
    /\ pickRecords = <<>>
    /\ verificationRecords = <<>>
    /\ clock = 1
    /\ lastCall = Call("", "")
    /\ scanRun = <<NoRun, NoRun>>
    /\ procs = [p \in 1..NProcs |-> Idle]

NextConc ==
    \/ \E p \in 1..NProcs : StartCall(p)
    \/ \E p \in 1..NProcs : StepCall(p)

SpecConc == InitConc /\ [][NextConc]_vars

\* ------------------------------------------------- administrative override
\* Serial scanItem and verifyItem calls together with updateMofStatus calls,
\* on the store that createMof and createItem have filled.
UpdateMofStatusCall ==
    \E in \in UpdateMofStatusInputs :
        \E r \in {updateMofStatus(Store, in)} :
        /\ SetStore(r.s)
        /\ lastCall' = Call("updateMofStatus", r.res)
        /\ scanRun' = IF r.res = "Ok" THEN Tainted(scanRun, in.id) ELSE scanRun
        /\ UNCHANGED <<clock, procs>>

NextOverride == ScanItem \/ VerifyItem \/ UpdateMofStatusCall

SpecOverride == InitConc /\ [][NextOverride]_vars

\* ------------------------------------------------------------- read calls
\* Serial scanItem and verifyItem calls together with the read handlers, on
\* the store that createMof and createItem have filled.
ReadCall(op, r, res) ==
    /\ SetStore(r.s)
    /\ lastCall' = Call(op, res)
    /\ UNCHANGED <<clock, scanRun, procs>>

GetMofProgress ==
    \E in \in GetMofProgressInputs :
        \E r \in {getMofProgress(Store, in)} :
            ReadCall("getMofProgress", r, IF r.res = NotFound THEN "null" ELSE "Ok")

GetMofBySerial ==
    \E in \in GetMofBySerialInputs :
        \E r \in {getMofBySerial(Store, in)} :
            ReadCall("getMofBySerial", r, IF r.res = NotFound THEN "null" ELSE "Ok")

GetAllMofs ==
    \E r \in {getAllMofs(Store)} :
        \E list \in r.res : ReadCall("getAllMofs", r, "Ok")

GetUserMofs ==
    \E userId \in UserIds :
        \E r \in {getUserMofs(Store, userId)} :
            \E list \in r.res : ReadCall("getUserMofs", r, "Ok")

GetAllItems ==
    \E r \in {getAllItems(Store)} :
        \E list \in r.res : ReadCall("getAllItems", r, "Ok")

NextRead ==
    \/ ScanItem
    \/ VerifyItem
    \/ GetMofProgress
    \/ GetMofBySerial
    \/ GetAllMofs
    \/ GetUserMofs
    \/ GetAllItems

SpecRead == InitConc /\ [][NextRead]_vars

\* ---------------------------------------------------------- user management
\* Serial createUser and createMof calls: a user that createUser has stored
\* can create MOFs.
CreateUser ==
    \E in \in CreateUserInputs :
        \E r \in createUser(Store, in) :
        /\ r.res = "Ok" => Len(users) < MaxUsers
        /\ SetStore(r.s)
        /\ lastCall' = Call("createUser", r.res)
        /\ UNCHANGED <<clock, scanRun, procs>>

NextUsers == Tick \/ CreateUser \/ CreateMof

SpecUsers == Init /\ [][NextUsers]_vars

\* ============================================================ properties
\* What the properties read off a store, written without the handlers' code.
MofIdOf(serial) ==
    IF \E k \in 1..Len(mofs) : mofs[k].serial_number = serial
    THEN CHOOSE k \in 1..Len(mofs) : mofs[k].serial_number = serial
    ELSE NULL

ItemIdOf(serial) ==
    IF \E k \in 1..Len(items) : items[k].serial_number = serial
    THEN CHOOSE k \in 1..Len(items) : items[k].serial_number = serial
    ELSE NULL

VerifiedItemsOf(s, mofId) ==
    {i \in 1..Len(s.items) :
        s.items[i].mof_id = mofId /\ s.items[i].is_scanned_by_requester}

PreconditionErrors ==
    {"NotFound(mof)", "NotFound(item)", "Mismatch(partNumber)", "Ownership",
     "NotYetPicked", "AlreadyProcessed(pick)", "AlreadyProcessed(verify)"}

\* C1: a MOF created with quantity N on which only successful scanItem calls
\* have acted is Pending before the first scan, In Progress after k scans
\* with 1 <= k < N and "MOF siap Supply" after the Nth scan, in whatever
\* order the items were scanned.
C1_StatusFollowsScans ==
    \A m \in 1..Len(mofs) :
        LET k == scanRun[m]
            N == mofs[m].quantity_requested IN
        /\ k = 0 => mofs[m].status = "Pending"
        /\ (1 <= k /\ k < N) => mofs[m].status = "In Progress"
        /\ k = N => mofs[m].status = "MOF siap Supply"

C1_Witness ==
    /\ lastCall = Call("scanItem", "Ok")
    /\ \E m \in 1..Len(mofs) :
        /\ mofs[m].quantity_requested = 2
        /\ scanRun[m] = 2
        /\ mofs[m].status = "MOF siap Supply"

\* C2: a verifyItem call that succeeds leaves the MOF Completed when the
\* number of verified items bound to the MOF is at least the requested
\* quantity, and leaves the MOF status as it was before the call otherwise.
C2_VerifyCompletion ==
    \A in \in VerifyItemInputs :
        LET r == verifyItem(Store, in, clock)
            m == MofIdOf(in.mof_serial_number) IN
        r.c.res = "Ok" =>
            IF Cardinality(VerifiedItemsOf(r.s, m)) >= mofs[m].quantity_requested
            THEN r.s.mofs[m].status = "Completed"
            ELSE r.s.mofs[m].status = mofs[m].status

C2_Witness ==
    /\ lastCall = Call("verifyItem", "Ok")
    /\ \E m \in 1..Len(mofs) :
        /\ mofs[m].quantity_requested = 2
        /\ Cardinality(VerifiedItemsOf(Store, m)) = 1
        /\ mofs[m].status = "MOF siap Supply"

C4_MofReferenceNeverChanges ==
    [][\A i \in 1..Len(items) :
          items[i].mof_id # NULL => items'[i].mof_id = items[i].mof_id]_vars

\* C5: scanning an item against the MOF it was already successfully scanned
\* against fails with AlreadyProcessed(pick) and leaves the store as it was.
C5_SecondScanRejected ==
    \A in \in ScanItemInputs :
        LET r == scanItem(Store, in, clock)
            m == MofIdOf(in.mof_serial_number)
            i == ItemIdOf(in.item_serial_number) IN
        (\E k \in 1..Len(pickRecords) :
            pickRecords[k].mof_id = m /\ pickRecords[k].item_id = i)
        => /\ r.c.res = "AlreadyProcessed(pick)"
           /\ r.s = Store

C5_Witness ==
    /\ lastCall = Call("scanItem", "AlreadyProcessed(pick)")
    /\ \E k \in 1..Len(pickRecords) :
        items[pickRecords[k].item_id].mof_id = pickRecords[k].mof_id

\* C6: scanItem fails with the first violated precondition in the order MOF
\* exists, item exists, part numbers match, item not yet picked, and succeeds
\* when all four hold.
ScanExpected(in) ==
    LET m == MofIdOf(in.mof_serial_number)
        i == ItemIdOf(in.item_serial_number) IN
    IF m = NULL THEN "NotFound(mof)"
    ELSE IF i = NULL THEN "NotFound(item)"
    ELSE IF items[i].part_number # mofs[m].part_number THEN "Mismatch(partNumber)"
    ELSE IF items[i].is_scanned_by_picker THEN "AlreadyProcessed(pick)"
    ELSE "Ok"

C6_ScanPreconditionOrder ==
    \A in \in ScanItemInputs :
        scanItem(Store, in, clock).c.res = ScanExpected(in)

\* C7: verifyItem fails with the first violated precondition in the order MOF
\* exists, item exists, item bound to the MOF, item picked, item not yet
\* verified, and succeeds when all five hold.
VerifyExpected(in) ==
    LET m == MofIdOf(in.mof_serial_number)
        i == ItemIdOf(in.item_serial_number) IN
    IF m = NULL THEN "NotFound(mof)"
    ELSE IF i = NULL THEN "NotFound(item)"
    ELSE IF items[i].mof_id # m THEN "Ownership"
    ELSE IF ~items[i].is_scanned_by_picker THEN "NotYetPicked"
    ELSE IF items[i].is_scanned_by_requester THEN "AlreadyProcessed(verify)"
    ELSE "Ok"

C7_VerifyPreconditionOrder ==
    \A in \in VerifyItemInputs :
        verifyItem(Store, in, clock).c.res = VerifyExpected(in)

\* C8 as stated: verifyItem of an existing unpicked item against an existing
\* MOF always fails with NotYetPicked and leaves the store as it was.
C8_UnpickedGivesNotYetPicked ==
    \A in \in VerifyItemInputs :
        LET r == verifyItem(Store, in, clock)
            m == MofIdOf(in.mof_serial_number)
            i == ItemIdOf(in.item_serial_number) IN
        (m # NULL /\ i # NULL /\ ~items[i].is_scanned_by_picker)
        => /\ r.c.res = "NotYetPicked"
           /\ r.s = Store

\* C8 as amended: verifyItem of an existing unpicked item against an existing
\* MOF always fails and leaves the store as it was; it fails with Ownership
\* when the item is not bound to that MOF (a never scanned item included)
\* and with NotYetPicked only when the item is bound to that MOF.
C8_UnpickedAlwaysRejected ==
    \A in \in VerifyItemInputs :
        LET r == verifyItem(Store, in, clock)
            m == MofIdOf(in.mof_serial_number)
            i == ItemIdOf(in.item_serial_number) IN
        (m # NULL /\ i # NULL /\ ~items[i].is_scanned_by_picker)
        => /\ r.c.res = IF items[i].mof_id # m THEN "Ownership" ELSE "NotYetPicked"
           /\ r.s = Store

C8_Witness ==
    /\ lastCall = Call("verifyItem", "Ownership")
    /\ Len(mofs) = MaxMofs
    /\ Len(items) = MaxItems
    /\ \A i \in 1..Len(items) : ~items[i].is_scanned_by_picker

\* C9: verifyItem of an item whose MOF reference is not the MOF named in the
\* call fails with Ownership and leaves items, MOFs and records as they were.
C9_OtherMofGivesOwnership ==
    \A in \in VerifyItemInputs :
        LET r == verifyItem(Store, in, clock)
            m == MofIdOf(in.mof_serial_number)
            i == ItemIdOf(in.item_serial_number) IN
        (m # NULL /\ i # NULL /\ items[i].mof_id # m)
        => /\ r.c.res = "Ownership"
           /\ r.s = Store

C9_Witness ==
    /\ lastCall = Call("verifyItem", "Ownership")
    /\ Len(mofs) = 2
    /\ Len(items) >= 1
    /\ \A i \in 1..Len(items) :
        items[i].is_scanned_by_picker /\ items[i].mof_id = 1

\* C10: a scanItem or verifyItem call that fails a precondition leaves the
\* whole store as it was.
C10_RejectionChangesNothing ==
    /\ \A in \in ScanItemInputs :
        LET r == scanItem(Store, in, clock) IN
        r.c.res \in PreconditionErrors => r.s = Store
    /\ \A in \in VerifyItemInputs :
        LET r == verifyItem(Store, in, clock) IN
        r.c.res \in PreconditionErrors => r.s = Store

C10_Witness ==
    /\ lastCall = Call("scanItem", "Mismatch(partNumber)")
    /\ Len(pickRecords) = 1
    /\ \E i \in 1..Len(items) : ~items[i].is_scanned_by_picker

\* The number of pick records and of verification records kept for an item.
PickRecordsOf(itemId) ==
    Cardinality({k \in 1..Len(pickRecords) : pickRecords[k].item_id = itemId})

VerificationRecordsOf(itemId) ==
    Cardinality({k \in 1..Len(verificationRecords) :
                    verificationRecords[k].item_id = itemId})

\* The requests for one item that have returned successfully.
Succeeded(op, serial) ==
    {p \in 1..NProcs :
        /\ procs[p].pc = "done"
        /\ procs[p].op = op
        /\ procs[p].res = "Ok"
        /\ procs[p].in.item_serial_number = serial}

\* The place of a status in the order Pending < In Progress <
\* "MOF siap Supply" < Completed.
StatusRank(status) ==
    CHOOSE k \in 1..Len(mofStatusEnum) : mofStatusEnum[k] = status

\* C11: of the concurrent scanItem calls for one item at most one succeeds,
\* and in every state every item has at most one pick record.
C11_AtMostOnePickRecord ==
    /\ \A serial \in ItemSerials :
          Cardinality(Succeeded("scanItem", serial)) <= 1
    /\ \A i \in 1..Len(items) : PickRecordsOf(i) <= 1

\* C12: no step of concurrent scanItem and verifyItem calls moves the stored
\* status of a MOF to an earlier status in the order Pending < In Progress <
\* "MOF siap Supply" < Completed.
C12_StatusNeverRegressesConcurrently ==
    [][\A m \in 1..Len(mofs) :
          StatusRank(mofs'[m].status) >= StatusRank(mofs[m].status)]_vars

\* C13: whenever no call is running, an item is marked picked and bound to
\* MOF m if and only if exactly one pick record for m and the item exists.
C13_PickedIffOnePickRecord ==
    \A i \in 1..Len(items), m \in 1..Len(mofs) :
        (items[i].is_scanned_by_picker /\ items[i].mof_id = m)
        <=> Cardinality({k \in 1..Len(pickRecords) :
                pickRecords[k].mof_id = m /\ pickRecords[k].item_id = i}) = 1

C15_StatusNonDecreasing ==
    [][\A m \in 1..Len(mofs) :
          /\ m \in 1..Len(mofs')
          /\ StatusRank(mofs[m].status) <= StatusRank(mofs'[m].status)]_vars

C15_Witness ==
    /\ lastCall = Call("scanItem", "Ok")
    /\ \E m \in 1..Len(mofs) :
        /\ mofs[m].status = "Completed"
        /\ CountPicked(Store, m) > mofs[m].quantity_requested

\* C16: of the concurrent verifyItem calls for one item at most one succeeds,
\* and in every state every item has at most one verification record.
C16_AtMostOneVerificationRecord ==
    /\ \A serial \in ItemSerials :
          Cardinality(Succeeded("verifyItem", serial)) <= 1
    /\ \A i \in 1..Len(items) : VerificationRecordsOf(i) <= 1

\* The items of a MOF that are picked, read off the items themselves.
PickedItemsOf(mofId) ==
    {i \in 1..Len(items) : items[i].mof_id = mofId /\ items[i].is_scanned_by_picker}

\* The rows a list holds, which must be as many as the list is long.
RowsOf(list) == {list[k] : k \in 1..Len(list)}

\* C17: for an existing MOF id getMofProgress returns the requested quantity
\* of the MOF, the number of picked and of verified items bound to that MOF,
\* and exactly those items as items_picked and items_verified; items bound
\* to another MOF or to none are not counted.
C17_ProgressCountsOwnItems ==
    \A m \in 1..Len(mofs) :
        LET r == getMofProgress(Store, [mof_id |-> m]).res IN
        /\ Len(r) = 1
        /\ r[1].quantity_requested = mofs[m].quantity_requested
        /\ r[1].quantity_picked = Cardinality(PickedItemsOf(m))
        /\ r[1].quantity_verified = Cardinality(VerifiedItemsOf(Store, m))
        /\ RowsOf(r[1].items_picked) = {items[i] : i \in PickedItemsOf(m)}
        /\ Len(r[1].items_picked) = Cardinality(PickedItemsOf(m))
        /\ RowsOf(r[1].items_verified) = {items[i] : i \in VerifiedItemsOf(Store, m)}
        /\ Len(r[1].items_verified) = Cardinality(VerifiedItemsOf(Store, m))

C17_Witness ==
    /\ lastCall = Call("getMofProgress", "Ok")
    /\ \E m \in 1..Len(mofs) :
        /\ Cardinality(PickedItemsOf(m)) = 1
        /\ Cardinality(VerifiedItemsOf(Store, m)) = 1
        /\ \E i \in 1..Len(items) :
              items[i].is_scanned_by_picker /\ items[i].mof_id \notin {m, NULL}

\* C18: getMofProgress returns null exactly when no MOF has the given id.
C18_NullIffNoMof ==
    \A in \in GetMofProgressInputs :
        (getMofProgress(Store, in).res = NotFound)
        <=> ~(\E k \in 1..Len(mofs) : mofs[k].id = in.mof_id)

C18_Witness ==
    /\ lastCall = Call("getMofProgress", "null")
    /\ \E m \in 1..Len(mofs) : PickedItemsOf(m) = {}
    /\ \E m \in 1..Len(mofs) : PickedItemsOf(m) # {}

\* C19: getMofProgress, getMofBySerial, getAllMofs, getUserMofs and
\* getAllItems leave the users, MOFs, items, pick records and verification
\* records as they were, for every input and in every state.
C19_ReadsChangeNothing ==
    /\ \A in \in GetMofProgressInputs : getMofProgress(Store, in).s = Store
    /\ \A in \in GetMofBySerialInputs : getMofBySerial(Store, in).s = Store
    /\ getAllMofs(Store).s = Store
    /\ \A userId \in UserIds : getUserMofs(Store, userId).s = Store
    /\ getAllItems(Store).s = Store

C19_Witness ==
    /\ lastCall.op \in {"getMofProgress", "getMofBySerial", "getAllMofs",
                        "getUserMofs", "getAllItems"}
    /\ Len(pickRecords) = MaxItems
    /\ Len(verificationRecords) = 1

\* C20: createMof for a creator that is no user fails with NotFound(user)
\* and stores no MOF; for a creator that is a user it stores exactly one new
\* MOF, Pending, with the part number, quantity and creator of the input,
\* and leaves the MOFs there were as they are.
C20_CreateMofValidatesCreator ==
    \A in \in CreateMofInputs, rnd \in 0..(RandomSuffixes - 1) :
        LET r == createMof(Store, in, clock, rnd) IN
        IF in.created_by \notin SelectUserIds(Store)
        THEN r.res = "NotFound(user)" /\ r.s = Store
        ELSE /\ r.res = "Ok"
             /\ Len(r.s.mofs) = Len(mofs) + 1
             /\ SubSeq(r.s.mofs, 1, Len(mofs)) = mofs
             /\ r.s.mofs[Len(mofs) + 1].status = "Pending"
             /\ r.s.mofs[Len(mofs) + 1].part_number = in.part_number
             /\ r.s.mofs[Len(mofs) + 1].quantity_requested = in.quantity_requested
             /\ r.s.mofs[Len(mofs) + 1].created_by = in.created_by

\* C21: in every state no two stored MOFs have the same serial number, and
\* every createMof call for a creator that is a user generates a serial
\* number that no stored MOF has, calls that see the same clock value
\* included.
C21_SerialsAlwaysFresh ==
    /\ \A j, k \in 1..Len(mofs) :
          mofs[j].serial_number = mofs[k].serial_number => j = k
    /\ \A in \in CreateMofInputs, rnd \in 0..(RandomSuffixes - 1) :
          in.created_by \in SelectUserIds(Store) =>
              createMof(Store, in, clock, rnd).res # "StoreError(unique)"

\* C22: createItem with a serial number no item has stores one new item,
\* neither picked nor verified, bound to no MOF and without timestamps, and
\* leaves the other items as they are; with a serial number an item already
\* has it fails with Conflict(duplicateSerial) and leaves the store as it
\* was; no two items share a serial number.
C22_CreateItemUniqueSerial ==
    /\ \A in \in CreateItemInputs :
        LET r == createItem(Store, in)
            n == Len(items) IN
        IF \E k \in 1..n : items[k].serial_number = in.serial_number
        THEN r.res = "Conflict(duplicateSerial)" /\ r.s = Store
        ELSE /\ r.res = "Ok"
             /\ r.s = [Store EXCEPT !.items = r.s.items]
             /\ Len(r.s.items) = n + 1
             /\ SubSeq(r.s.items, 1, n) = items
             /\ r.s.items[n + 1].serial_number = in.serial_number
             /\ r.s.items[n + 1].part_number = in.part_number
             /\ ~r.s.items[n + 1].is_scanned_by_picker
             /\ ~r.s.items[n + 1].is_scanned_by_requester
             /\ r.s.items[n + 1].mof_id = NULL
             /\ r.s.items[n + 1].picked_at = NullTime
             /\ r.s.items[n + 1].verified_at = NullTime
    /\ \A j, k \in 1..Len(items) :
          items[j].serial_number = items[k].serial_number => j = k

C22_Witness ==
    /\ lastCall = Call("createItem", "Conflict(duplicateSerial)")
    /\ Len(items) = 1
    /\ items[1].is_scanned_by_picker

NewestFirst(list, rows) ==
    /\ RowsOf(list) = rows
    /\ Len(list) = Cardinality(rows)
    /\ \A j, k \in 1..Len(list) :
          list[j].created_at > list[k].created_at => j < k

\* C25: getUserMofs returns exactly the MOFs whose creator is the given user,
\* the empty list when there is none, getAllMofs returns every MOF, and in
\* both lists a MOF created later comes before a MOF created earlier.
C25_ListsNewestFirst ==
    /\ \A userId \in UserIds :
        LET r == getUserMofs(Store, userId).res IN
        /\ r # {}
        /\ \A list \in r :
              NewestFirst(list, {mofs[k] : k \in {j \in 1..Len(mofs) :
                                                    mofs[j].created_by = userId}})
    /\ LET r == getAllMofs(Store).res IN
        /\ r # {}
        /\ \A list \in r : NewestFirst(list, {mofs[k] : k \in 1..Len(mofs)})

C25_Witness ==
    /\ lastCall = Call("getUserMofs", "Ok")
    /\ Len(mofs) = 2
    /\ mofs[1].created_at < mofs[2].created_at
    /\ mofs[1].status = "Completed"
    /\ mofs[2].status = "In Progress"

\* C26: getMofBySerial returns the stored MOF whose serial number is equal
\* to the given one when there is one and null otherwise, never a MOF with
\* another serial number.
C26_MofBySerialExact ==
    \A in \in GetMofBySerialInputs :
        LET r == getMofBySerial(Store, in).res IN
        IF \E k \in 1..Len(mofs) : mofs[k].serial_number = in.serial_number
        THEN /\ Len(r) = 1
             /\ r[1] \in RowsOf(mofs)
             /\ r[1].serial_number = in.serial_number
        ELSE r = NotFound

C26_Witness ==
    /\ lastCall = Call("getMofBySerial", "null")
    /\ Len(mofs) = 2
    /\ mofs[1].serial_number # mofs[2].serial_number
    /\ mofs[2].status = "Completed"

C28_ScanChangesOnlyItsOwn ==
    \A in \in ScanItemInputs :
        LET r == scanItem(Store, in, clock)
            m == MofIdOf(in.mof_serial_number)
            i == ItemIdOf(in.item_serial_number) IN
        r.c.res = "Ok" =>
            /\ r.s.items[i].picked_at # NullTime
            /\ r.s.items = [items EXCEPT ![i] =
                    [@ EXCEPT !.is_scanned_by_picker = TRUE, !.mof_id = m,
                              !.picked_at = r.s.items[i].picked_at]]
            /\ r.s.pickRecords = Append(pickRecords,
                    [mof_id |-> m, item_id |-> i, picked_by |-> in.picked_by,
                     picked_at |-> r.s.items[i].picked_at])
            /\ r.s.mofs = [mofs EXCEPT ![m] =
                    [@ EXCEPT !.status = r.s.mofs[m].status]]
            /\ r.s.verificationRecords = verificationRecords
            /\ r.s.users = users

C28_Witness ==
    /\ lastCall = Call("scanItem", "Ok")
    /\ Len(mofs) = 2
    /\ Len(pickRecords) = 2
    /\ Len(verificationRecords) = 1
    /\ pickRecords[1].mof_id # pickRecords[2].mof_id

\* C29: a successful verifyItem marks the item verified and sets its
\* verified time, appends exactly one verification record for the MOF, the
\* item and the verifier with that same time, and may set the status of the
\* MOF to Completed; the item's MOF reference, picked flag, picked time and
\* part number, every other item, every other MOF, the other fields of the
\* MOF, the pick records and the users stay as they were.
C29_VerifyChangesOnlyItsOwn ==
    \A in \in VerifyItemInputs :
        LET r == verifyItem(Store, in, clock)
            m == MofIdOf(in.mof_serial_number)
            i == ItemIdOf(in.item_serial_number) IN
        r.c.res = "Ok" =>
            /\ r.s.items[i].verified_at # NullTime
            /\ r.s.items = [items EXCEPT ![i] =
                    [@ EXCEPT !.is_scanned_by_requester = TRUE,
                              !.verified_at = r.s.items[i].verified_at]]
            /\ r.s.verificationRecords = Append(verificationRecords,
                    [mof_id |-> m, item_id |-> i, verified_by |-> in.verified_by,
                     verified_at |-> r.s.items[i].verified_at])
            /\ r.s.mofs = [mofs EXCEPT ![m] =
                    [@ EXCEPT !.status = r.s.mofs[m].status]]
            /\ r.s.mofs[m].status \in {mofs[m].status, "Completed"}
            /\ r.s.pickRecords = pickRecords
            /\ r.s.users = users

C29_Witness ==
    /\ lastCall = Call("verifyItem", "Ok")
    /\ Len(mofs) = 2
    /\ Len(pickRecords) = 2
    /\ Len(verificationRecords) = 1
    /\ \E i \in 1..Len(items) : ~items[i].is_scanned_by_requester
    /\ \E m \in 1..Len(mofs) : mofs[m].status = "In Progress"

\* C30: whenever no call is running, an item is marked verified if and only
\* if exactly one verification record for the item and its MOF exists.
C30_VerifiedIffOneVerificationRecord ==
    \A i \in 1..Len(items) :
        items[i].is_scanned_by_requester
        <=> Cardinality({k \in 1..Len(verificationRecords) :
                /\ verificationRecords[k].item_id = i
                /\ verificationRecords[k].mof_id = items[i].mof_id}) = 1

\* C31: when the picked items bound to a MOF are already as many as the
\* requested quantity or more, scanItem of a further unpicked item with the
\* part number of the MOF succeeds, binds the item to the MOF, appends a pick
\* record and leaves the status of the MOF as it was.
C31_OverPickingAccepted ==
    \A in \in ScanItemInputs :
        LET r == scanItem(Store, in, clock)
            m == MofIdOf(in.mof_serial_number)
            i == ItemIdOf(in.item_serial_number) IN
        (/\ m # NULL
         /\ i # NULL
         /\ items[i].part_number = mofs[m].part_number
         /\ ~items[i].is_scanned_by_picker
         /\ Cardinality(PickedItemsOf(m)) >= mofs[m].quantity_requested)
        => /\ r.c.res = "Ok"
           /\ r.s.items[i].is_scanned_by_picker
           /\ r.s.items[i].mof_id = m
           /\ Len(r.s.pickRecords) = Len(pickRecords) + 1
           /\ r.s.pickRecords[Len(pickRecords) + 1].mof_id = m
           /\ r.s.pickRecords[Len(pickRecords) + 1].item_id = i
           /\ r.s.mofs[m].status = mofs[m].status

\* C32: no step removes an item, resets its picked or its verified flag or
\* unbinds it from a MOF, and every pick record and verification record of
\* a state is there unchanged after every step.
C32_NothingRemovedOrReset ==
    [][/\ Len(items') >= Len(items)
       /\ \A i \in 1..Len(items) :
             /\ items'[i].id = items[i].id
             /\ items'[i].serial_number = items[i].serial_number
             /\ items[i].is_scanned_by_picker => items'[i].is_scanned_by_picker
             /\ items[i].is_scanned_by_requester => items'[i].is_scanned_by_requester
             /\ items[i].mof_id # NULL => items'[i].mof_id # NULL
       /\ Len(pickRecords') >= Len(pickRecords)
       /\ SubSeq(pickRecords', 1, Len(pickRecords)) = pickRecords
       /\ Len(verificationRecords') >= Len(verificationRecords)
       /\ SubSeq(verificationRecords', 1, Len(verificationRecords))
             = verificationRecords]_vars

C32_Witness ==
    /\ lastCall = Call("createItem", "Ok")
    /\ Len(items) = 2
    /\ Len(pickRecords) = 1
    /\ Len(verificationRecords) = 1
    /\ items[1].is_scanned_by_requester

\* Every call that was started has returned.
NoCallRunning == \A p \in 1..NProcs : procs[p].pc \in {"idle", "done"}

\* No two of the calls started so far name the same item.
CallsOnDifferentItems ==
    \A p, q \in 1..NProcs :
        (/\ p # q
         /\ procs[p].pc # "idle"
         /\ procs[q].pc # "idle")
        => procs[p].in.item_serial_number # procs[q].in.item_serial_number

\* C33: when every scanItem and verifyItem call that was started has
\* returned, the calls having named different items, a MOF whose picked
\* items are exactly as many as requested is "MOF siap Supply" or Completed,
\* and a MOF whose verified items are as many as requested or more is
\* Completed.
C33_FinalStatusAgreesWithCounts ==
    (NoCallRunning /\ CallsOnDifferentItems) =>
        \A m \in 1..Len(mofs) :
            /\ Cardinality(PickedItemsOf(m)) = mofs[m].quantity_requested
                  => mofs[m].status \in {"MOF siap Supply", "Completed"}
            /\ Cardinality(VerifiedItemsOf(Store, m)) >= mofs[m].quantity_requested
                  => mofs[m].status = "Completed"

\* C34: in every state in which no call is running, a MOF that is "MOF siap
\* Supply" has at least the requested number of picked items bound to it, a
\* MOF that is Completed has at least the requested number of verified items
\* bound to it, and a MOF that is Pending has no pick record.
C34_StatusJustifiedByCounts ==
    NoCallRunning =>
    \A m \in 1..Len(mofs) :
        /\ mofs[m].status = "MOF siap Supply"
              => Cardinality(PickedItemsOf(m)) >= mofs[m].quantity_requested
        /\ mofs[m].status = "Completed"
              => Cardinality(VerifiedItemsOf(Store, m)) >= mofs[m].quantity_requested
        /\ mofs[m].status = "Pending"
              => ~(\E k \in 1..Len(pickRecords) : pickRecords[k].mof_id = m)

\* C35: no step moves the stored status of a MOF from Pending or from In
\* Progress to Completed: a MOF becomes Completed only from "MOF siap
\* Supply".
C35_CompletedOnlyAfterSiapSupply ==
    [][\A m \in 1..Len(mofs) :
          mofs[m].status \in {"Pending", "In Progress"}
          => mofs'[m].status # "Completed"]_vars

\* C36: in every state, for every MOF, the progress that getMofProgress
\* reports has no more verified items than picked items, and every item it
\* lists as verified is also listed as picked.
C36_VerifiedWithinPicked ==
    \A in \in GetMofProgressInputs :
        LET r == getMofProgress(Store, in).res IN
        r # NotFound
        => /\ r[1].quantity_verified <= r[1].quantity_picked
           /\ RowsOf(r[1].items_verified) \subseteq RowsOf(r[1].items_picked)

C36_Witness ==
    /\ lastCall = Call("getMofProgress", "Ok")
    /\ \E in \in GetMofProgressInputs :
          LET r == getMofProgress(Store, in).res IN
          /\ r # NotFound
          /\ r[1].quantity_picked = 2
          /\ r[1].quantity_verified = 1

====
